---------------------------- MODULE Spec2Model ----------------------------
(***************************************************************************)
(* express-jobly: the partial-update clause builder (helpers/sql.js), the  *)
(* predicate builders and repository operations of Job (models/job.js) and *)
(* Company (models/company.js), run against a relational store.            *)
(***************************************************************************)
EXTENDS Integers, Sequences, FiniteSets, TLC

VARIABLES companies, jobs, nextId, last, calls

vars == <<companies, jobs, nextId, last, calls>>

-----------------------------------------------------------------------------
(* JavaScript values.  A value carries its type tag; text is a sequence of  *)
(* one-character strings so that the empty string and substrings exist.     *)

Undefined == [t |-> "undefined"]
Null == [t |-> "null"]
IntV(n) == [t |-> "int", v |-> n]
StrV(s) == [t |-> "str", v |-> s]
BoolV(b) == [t |-> "bool", v |-> b]
\* a JS number holding the decimal fraction n/100 (an equity)
NumV(n) == [t |-> "num", v |-> n]
\* the text pg returns for a NUMERIC column holding n/100
NumText(n) == [t |-> "numtext", v |-> n]

\* JS truthiness of a value: if (x) ...
Truthy(x) ==
    CASE x.t = "undefined" -> FALSE
      [] x.t = "null" -> FALSE
      [] x.t = "int" -> x.v # 0
      [] x.t = "num" -> x.v # 0
      [] x.t = "str" -> x.v # <<>>
      [] x.t = "bool" -> x.v
      [] OTHER -> TRUE

\* a slip: >= for >
JsGreater_orEqual(a, b) ==
    IF a.t = "int" /\ b.t = "int" THEN a.v >= b.v ELSE FALSE

\* JS a > b of the relational comparison: false whenever an operand is
\* undefined (it converts to NaN)
JsGreater(a, b) ==
    IF a.t = "int" /\ b.t = "int" THEN a.v > b.v ELSE FALSE

\* A JS object literal: its own properties in insertion order, as a sequence
\* of [k |-> name, v |-> value] with distinct names.
ObjectKeys(obj) == [i \in 1..Len(obj) |-> obj[i].k]
ObjectValues(obj) == [i \in 1..Len(obj) |-> obj[i].v]

\* obj.name : the property's value, undefined when the object has none
Prop(obj, name) ==
    IF \E i \in 1..Len(obj) : obj[i].k = name
    THEN LET i == CHOOSE j \in 1..Len(obj) : obj[j].k = name IN obj[i].v
    ELSE Undefined

(* SQL text is a sequence of tokens: "WHERE salary >= $1" is                 *)
(* <<"WHERE", "salary", ">=", "$1">> and the empty string is <<>>.  A       *)
(* template literal concatenates the token sequences of its parts.          *)

\* the text $k
Placeholder(k) == "$" \o ToString(k)

\* the text "name" (a quoted identifier)
Quoted(name) == "\"" \o name \o "\""

\* Array.prototype.join of an array of texts
RECURSIVE Join(_, _)
Join(seq, sep) ==
    IF Len(seq) = 0 THEN <<>>
    ELSE IF Len(seq) = 1 THEN seq[1]
    ELSE seq[1] \o sep \o Join(Tail(seq), sep)

-----------------------------------------------------------------------------
(* helpers/sql.js                                                          *)

\* jsToSql[colName] || colName, jsToSql a table from property names to
\* column names
ColumnFor(jsToSql, colName) ==
    IF colName \in DOMAIN jsToSql /\ jsToSql[colName] # ""
    THEN jsToSql[colName]
    ELSE colName

\* a slip: placeholders numbered by the 0-based index
sqlForPartialUpdate_idx0(dataToUpdate, jsToSql) ==
    LET keys == ObjectKeys(dataToUpdate) IN
    IF Len(keys) = 0 THEN [err |-> "BadRequestError"]
    ELSE LET cols == [i \in 1..Len(keys) |->
                        <<Quoted(ColumnFor(jsToSql, keys[i])), "=",
                          Placeholder(i - 1)>>]
         IN  [err |-> "none",
              setCols |-> Join(cols, <<",">>),
              values |-> ObjectValues(dataToUpdate)]

\* a slip: an empty mapping yields an empty fragment instead of throwing
sqlForPartialUpdate_noThrow(dataToUpdate, jsToSql) ==
    LET keys == ObjectKeys(dataToUpdate)
        cols == [i \in 1..Len(keys) |->
                        <<Quoted(ColumnFor(jsToSql, keys[i])), "=",
                          Placeholder((i - 1) + 1)>>]
    IN  [err |-> "none",
         setCols |-> Join(cols, <<",">>),
         values |-> ObjectValues(dataToUpdate)]

\* keys.map((colName, idx) => `"${jsToSql[colName] || colName}"=$${idx + 1}`)
\* with idx = i - 1 for the i-th key, then cols.join(", ")
sqlForPartialUpdate(dataToUpdate, jsToSql) ==
    LET keys == ObjectKeys(dataToUpdate) IN
    IF Len(keys) = 0 THEN [err |-> "BadRequestError"]
    ELSE LET cols == [i \in 1..Len(keys) |->
                        <<Quoted(ColumnFor(jsToSql, keys[i])), "=",
                          Placeholder((i - 1) + 1)>>]
         IN  [err |-> "none",
              setCols |-> Join(cols, <<",">>),
              values |-> ObjectValues(dataToUpdate)]

-----------------------------------------------------------------------------
(* The predicate builders: Company.whereBuilder, Job.whereBuilder          *)

\* an argument that is an object literal
ObjV(o) == [t |-> "object", v |-> o]

\* `%${text}%`
Wildcard(x) ==
    IF x.t = "str" THEN StrV(<<"%">> \o x.v \o <<"%">>) ELSE StrV(<<"%", "%">>)

NoConditions == [queryStatements |-> <<>>, values |-> <<>>]

\* if (test) { queryStatements.push(`<cond> $${values.length + 1}`);
\*             values.push(value); }
PushIf(acc, test, cond, value) ==
    IF test
    THEN [queryStatements |->
              Append(acc.queryStatements,
                     cond \o <<Placeholder(Len(acc.values) + 1)>>),
          values |-> Append(acc.values, value)]
    ELSE acc

\* a slip: the keyword is emitted whether or not a condition follows
WhereClauseOf_always(queryStatements) ==
    <<"WHERE">> \o Join(queryStatements, <<"AND">>)

\* queryStatements.length > 0 ? "WHERE " + queryStatements.join(" AND ") : ""
WhereClauseOf(queryStatements) ==
    IF Len(queryStatements) > 0
    THEN <<"WHERE">> \o Join(queryStatements, <<"AND">>)
    ELSE <<>>

\* a slip: the substring condition is pushed first
Company_whereBuilder_nameFirst(queries) ==
    IF ~Truthy(queries)
    THEN [err |-> "none", whereClause |-> WhereClauseOf(<<>>), values |-> <<>>]
    ELSE
    LET minEmployees == Prop(queries.v, "minEmployees")
        maxEmployees == Prop(queries.v, "maxEmployees")
        nameLike == Prop(queries.v, "nameLike")
    IN  IF JsGreater(minEmployees, maxEmployees)
        THEN [err |-> "BadRequestError"]
        ELSE
        LET a1 == PushIf(NoConditions, Truthy(nameLike),
                         <<"name", "ILIKE">>, Wildcard(nameLike))
            a2 == PushIf(a1, Truthy(minEmployees),
                         <<"num_employees", ">=">>, minEmployees)
            a3 == PushIf(a2, Truthy(maxEmployees),
                         <<"num_employees", "<=">>, maxEmployees)
        IN  [err |-> "none",
             whereClause |-> WhereClauseOf(a3.queryStatements),
             values |-> a3.values]

Company_whereBuilder(queries) ==
    IF ~Truthy(queries)
    THEN [err |-> "none", whereClause |-> WhereClauseOf(<<>>), values |-> <<>>]
    ELSE
    LET minEmployees == Prop(queries.v, "minEmployees")
        maxEmployees == Prop(queries.v, "maxEmployees")
        nameLike == Prop(queries.v, "nameLike")
    IN  IF JsGreater(minEmployees, maxEmployees)
        THEN [err |-> "BadRequestError"]
        ELSE
        LET a1 == PushIf(NoConditions, Truthy(minEmployees),
                         <<"num_employees", ">=">>, minEmployees)
            a2 == PushIf(a1, Truthy(maxEmployees),
                         <<"num_employees", "<=">>, maxEmployees)
            a3 == PushIf(a2, Truthy(nameLike),
                         <<"name", "ILIKE">>, Wildcard(nameLike))
        IN  [err |-> "none",
             whereClause |-> WhereClauseOf(a3.queryStatements),
             values |-> a3.values]

\* a slip: the criterion's own value is pushed for hasEquity, and the test
\* is for presence
Job_whereBuilder_equityValue(queries) ==
    IF ~Truthy(queries)
    THEN [err |-> "none", whereClause |-> WhereClauseOf(<<>>), values |-> <<>>]
    ELSE
    LET title == Prop(queries.v, "title")
        minSalary == Prop(queries.v, "minSalary")
        hasEquity == Prop(queries.v, "hasEquity")
        a1 == PushIf(NoConditions, Truthy(minSalary),
                     <<"salary", ">=">>, minSalary)
        a2 == PushIf(a1, hasEquity # Undefined, <<"equity", ">">>, hasEquity)
        a3 == PushIf(a2, Truthy(title), <<"title", "ILIKE">>, Wildcard(title))
    IN  [err |-> "none",
         whereClause |-> WhereClauseOf(a3.queryStatements),
         values |-> a3.values]

Job_whereBuilder(queries) ==
    IF ~Truthy(queries)
    THEN [err |-> "none", whereClause |-> WhereClauseOf(<<>>), values |-> <<>>]
    ELSE
    LET title == Prop(queries.v, "title")
        minSalary == Prop(queries.v, "minSalary")
        hasEquity == Prop(queries.v, "hasEquity")
        a1 == PushIf(NoConditions, Truthy(minSalary),
                     <<"salary", ">=">>, minSalary)
        a2 == PushIf(a1, Truthy(hasEquity), <<"equity", ">">>, IntV(0))
        a3 == PushIf(a2, Truthy(title), <<"title", "ILIKE">>, Wildcard(title))
    IN  [err |-> "none",
         whereClause |-> WhereClauseOf(a3.queryStatements),
         values |-> a3.values]

-----------------------------------------------------------------------------
(* The store behind db.query: two tables, each a set of rows.  A statement  *)
(* is a record of its verb, its table and the texts spliced into it; the    *)
(* parameters are the second argument of db.query.                          *)

\* INSERT INTO companies (handle, name, description, num_employees, logo_url)
CompanyCols == {"handle", "name", "description", "num_employees", "logo_url"}

\* INSERT INTO jobs (title, salary, equity, company_handle), and the id that
\* DELETE FROM jobs WHERE id = $1 RETURNING id reads
JobCols == {"id", "title", "salary", "equity", "company_handle"}

ColumnsOf(table) == IF table = "companies" THEN CompanyCols ELSE JobCols

TableRows(db, table) == IF table = "companies" THEN db.companies ELSE db.jobs

\* handle is unique among companies, and every job's company exists
Consistent(db) ==
    /\ \A r1, r2 \in db.companies : r1.handle = r2.handle => r1 = r2
    /\ \A j \in db.jobs : \E c \in db.companies : c.handle = j.company_handle

\* the number a value stands for, in hundredths
Hundredths(x) == IF x.t = "int" THEN 100 * x.v ELSE x.v

\* the lower-case form of a letter
Lower(ch) ==
    CASE ch = "C" -> "c" [] ch = "D" -> "d" [] ch = "J" -> "j"
      [] ch = "K" -> "k" [] ch = "N" -> "n" [] OTHER -> ch

\* text ILIKE pattern: % stands for any run of characters, _ for any one
RECURSIVE ILike(_, _)
ILike(text, pattern) ==
    IF pattern = <<>> THEN text = <<>>
    ELSE IF Head(pattern) = "%"
    THEN \/ ILike(text, Tail(pattern))
         \/ (text # <<>> /\ ILike(Tail(text), pattern))
    ELSE /\ text # <<>>
         /\ (Head(pattern) = "_" \/ Lower(Head(text)) = Lower(Head(pattern)))
         /\ ILike(Tail(text), Tail(pattern))

\* a comparison of a column with a parameter; a NULL never compares true
SqlCompare(a, op, b) ==
    IF a.t = "null" \/ b.t = "null" THEN FALSE
    ELSE CASE op = "=" -> a = b
           [] op = "ILIKE" -> ILike(a.v, b.v)
           [] op = ">=" -> Hundredths(a) >= Hundredths(b)
           [] op = "<=" -> Hundredths(a) <= Hundredths(b)
           [] op = ">" -> Hundredths(a) > Hundredths(b)
           [] OTHER -> FALSE

PlaceholdersUpTo(n) == {Placeholder(j) : j \in 1..n}
PlaceholderIndex(tok, n) == CHOOSE j \in 1..n : tok = Placeholder(j)

\* the conditions of a WHERE text: WHERE c op $k (AND c op $k)*, or nothing
WhereConds(tokens) ==
    [k \in 1..(Len(tokens) \div 4) |->
        [col |-> tokens[4 * k - 2], op |-> tokens[4 * k - 1],
         ph |-> tokens[4 * k]]]

WhereWellFormed(tokens, n) ==
    /\ Len(tokens) % 4 = 0
    /\ \A k \in 1..(Len(tokens) \div 4) :
         /\ tokens[4 * k - 3] = (IF k = 1 THEN "WHERE" ELSE "AND")
         /\ tokens[4 * k - 1] \in {"=", ">=", "<=", ">", "ILIKE"}
         /\ tokens[4 * k] \in PlaceholdersUpTo(n)

\* the column a quoted identifier names (the text itself when it names none)
Unquote(tok) ==
    IF \E c \in CompanyCols \cup JobCols : tok = Quoted(c)
    THEN CHOOSE c \in CompanyCols \cup JobCols : tok = Quoted(c)
    ELSE tok

\* the assignments of a SET text: "c"=$k (, "c"=$k)*
SetAssignments(tokens) ==
    [i \in 1..((Len(tokens) + 1) \div 4) |->
        [col |-> Unquote(tokens[4 * i - 3]), ph |-> tokens[4 * i - 1]]]

SetWellFormed(tokens, n) ==
    /\ Len(tokens) > 0
    /\ (Len(tokens) + 1) % 4 = 0
    /\ \A i \in 1..((Len(tokens) + 1) \div 4) :
         /\ tokens[4 * i - 2] = "="
         /\ tokens[4 * i - 1] \in PlaceholdersUpTo(n)
         /\ 4 * i < Len(tokens) => tokens[4 * i] = ","

\* what pg hands back for a stored value: a NUMERIC comes back as text
PgOut(x) == IF x.t = "num" THEN NumText(x.v) ELSE x

\* the row a select list or a RETURNING list makes, ret its <<column, alias>>
Project(row, ret) ==
    [a \in {ret[i][2] : i \in 1..Len(ret)} |->
        LET i == CHOOSE j \in 1..Len(ret) : ret[j][2] = a
        IN  PgOut(row[ret[i][1]])]

\* every order in which the rows of a set may come back
RowOrders(rows) ==
    { s \in [1..Cardinality(rows) -> rows] :
        \A i, j \in 1..Cardinality(rows) : s[i] = s[j] => i = j }

\* the place of a character in the store's collation
Collation == <<"1", "2", "c", "C", "d", "D", "j", "J", "k", "K", "n", "N", "u">>

Rank(ch) ==
    IF \E i \in 1..Len(Collation) : Collation[i] = ch
    THEN CHOOSE i \in 1..Len(Collation) : Collation[i] = ch
    ELSE 0

\* a sorts strictly before b
RECURSIVE TextBefore(_, _)
TextBefore(a, b) ==
    IF b = <<>> THEN FALSE
    ELSE IF a = <<>> THEN TRUE
    ELSE IF Head(a) = Head(b) THEN TextBefore(Tail(a), Tail(b))
    ELSE Rank(Head(a)) < Rank(Head(b))

\* ORDER BY column, ascending: a NULL sorts last
SortsBefore(a, b) ==
    IF a.t = "null" THEN FALSE
    ELSE IF b.t = "null" THEN TRUE
    ELSE TextBefore(a.v, b.v)

\* the orders ORDER BY column leaves open: rows that tie come in any order
OrderedBy(rows, column) ==
    { s \in RowOrders(rows) :
        \A i, j \in 1..Cardinality(rows) :
            i < j => ~SortsBefore(s[j][column], s[i][column]) }

StmtColumns(stmt) ==
    {stmt.ret[i][1] : i \in 1..Len(stmt.ret)}
    \cup (IF stmt.verb = "INSERT"
          THEN {stmt.cols[i] : i \in 1..Len(stmt.cols)}
          ELSE {WhereConds(stmt.where)[k].col :
                  k \in 1..(Len(stmt.where) \div 4)})
    \cup (IF stmt.verb = "UPDATE"
          THEN {SetAssignments(stmt.set)[i].col :
                  i \in 1..((Len(stmt.set) + 1) \div 4)}
          ELSE {})
    \cup (IF "order" \in DOMAIN stmt THEN {stmt.order} ELSE {})

StmtWellFormed(stmt, n) ==
    /\ stmt.verb # "INSERT" => WhereWellFormed(stmt.where, n)
    /\ stmt.verb = "INSERT" => Len(stmt.cols) = n
    /\ stmt.verb = "UPDATE" => SetWellFormed(stmt.set, n)
    /\ StmtColumns(stmt) \subseteq ColumnsOf(stmt.table)

Matching(db, stmt, params) ==
    { r \in TableRows(db, stmt.table) :
        \A k \in 1..(Len(stmt.where) \div 4) :
            LET c == WhereConds(stmt.where)[k] IN
            SqlCompare(r[c.col], c.op,
                       params[PlaceholderIndex(c.ph, Len(params))]) }

WithTable(db, table, rows) ==
    IF table = "companies"
    THEN [db EXCEPT !.companies = rows]
    ELSE [db EXCEPT !.jobs = rows]

DbError(db) == [err |-> "DbError", rows |-> <<>>, db |-> db]

DbRows(db, rows, ret) ==
    { [err |-> "none",
       rows |-> [i \in 1..Len(s) |-> Project(s[i], ret)],
       db |-> db] : s \in RowOrders(rows) }

DbRowsOrdered(db, rows, ret, column) ==
    { [err |-> "none",
       rows |-> [i \in 1..Len(s) |-> Project(s[i], ret)],
       db |-> db] : s \in OrderedBy(rows, column) }

\* the row an INSERT makes: the listed columns from the parameters, id from
\* the table's sequence, every other column NULL
InsertedRow(db, stmt, params) ==
    [c \in ColumnsOf(stmt.table) |->
        IF \E i \in 1..Len(stmt.cols) : stmt.cols[i] = c
        THEN params[CHOOSE i \in 1..Len(stmt.cols) : stmt.cols[i] = c]
        ELSE IF c = "id" THEN IntV(db.nextId) ELSE Null]

\* the row an UPDATE makes of r
UpdatedRow(r, stmt, params) ==
    LET as == SetAssignments(stmt.set) IN
    [c \in DOMAIN r |->
        IF \E i \in 1..Len(as) : as[i].col = c
        THEN params[PlaceholderIndex(
                 as[CHOOSE i \in 1..Len(as) : as[i].col = c].ph, Len(params))]
        ELSE r[c]]

\* db.query(statement, params): the outcomes the store may answer with
DbQuery(db, stmt, params) ==
    IF ~StmtWellFormed(stmt, Len(params)) THEN {DbError(db)}
    ELSE
    CASE stmt.verb = "SELECT" ->
           IF "order" \in DOMAIN stmt
           THEN DbRowsOrdered(db, Matching(db, stmt, params), stmt.ret,
                              stmt.order)
           ELSE DbRows(db, Matching(db, stmt, params), stmt.ret)
      [] stmt.verb = "INSERT" ->
           LET row == InsertedRow(db, stmt, params)
               rows == TableRows(db, stmt.table) \cup {row}
               new == [WithTable(db, stmt.table, rows) EXCEPT
                         !.nextId = IF stmt.table = "jobs"
                                    THEN db.nextId + 1 ELSE db.nextId]
           IN  IF row \in TableRows(db, stmt.table) \/ ~Consistent(new)
               THEN {DbError(db)}
               ELSE DbRows(new, {row}, stmt.ret)
      [] stmt.verb = "UPDATE" ->
           LET hit == Matching(db, stmt, params)
               made == {UpdatedRow(r, stmt, params) : r \in hit}
               rows == (TableRows(db, stmt.table) \ hit) \cup made
               new == WithTable(db, stmt.table, rows)
           IN  IF Cardinality(rows) # Cardinality(TableRows(db, stmt.table))
                  \/ ~Consistent(new)
               THEN {DbError(db)}
               ELSE DbRows(new, made, stmt.ret)
      [] stmt.verb = "DELETE" ->
           LET hit == Matching(db, stmt, params)
               new == WithTable(db, stmt.table,
                                TableRows(db, stmt.table) \ hit)
               cascaded ==
                   [new EXCEPT !.jobs =
                       {j \in new.jobs : \E c \in new.companies :
                                             c.handle = j.company_handle}]
           IN  IF Consistent(new)
               THEN DbRows(new, hit, stmt.ret)
               ELSE {DbError(db)} \cup DbRows(cascaded, hit, stmt.ret)

-----------------------------------------------------------------------------
(* The repository operations.  Each yields the outcomes a call may have:    *)
(* the error thrown ("none" when it returns), the value returned, the store *)
(* it leaves and the statements it issued.                                  *)

\* the table Company.update passes to sqlForPartialUpdate
companyJsToSql == [numEmployees |-> "num_employees", logoUrl |-> "logo_url"]

\* the table Job.update passes: {}
jobJsToSql == <<>>

Tag(stmt) == <<stmt.verb, stmt.table>>

Thrown(err, db, stmts) ==
    [err |-> err, ret |-> Undefined, db |-> db, stmts |-> stmts]

Returned(ret, db, stmts) ==
    [err |-> "none", ret |-> ret, db |-> db, stmts |-> stmts]

\* result.rows[0]
FirstRow(rows) == IF Len(rows) > 0 THEN rows[1] ELSE Undefined

\* title, salary, equity, company_handle AS "companyHandle"
JobReturning ==
    << <<"title", "title">>, <<"salary", "salary">>, <<"equity", "equity">>,
       <<"company_handle", "companyHandle">> >>

\* handle, name, description, num_employees AS "numEmployees",
\* logo_url AS "logoUrl"
CompanyReturning ==
    << <<"handle", "handle">>, <<"name", "name">>,
       <<"description", "description">>,
       <<"num_employees", "numEmployees">>, <<"logo_url", "logoUrl">> >>

Job_create(db, data) ==
    LET stmt == [verb |-> "INSERT", table |-> "jobs",
                 cols |-> <<"title", "salary", "equity", "company_handle">>,
                 ret |-> JobReturning]
        params == <<data.title, data.salary, data.equity, data.companyHandle>>
    IN  { IF r.err # "none"
          THEN Thrown(r.err, r.db, <<Tag(stmt)>>)
          ELSE Returned(FirstRow(r.rows), r.db, <<Tag(stmt)>>) :
          r \in DbQuery(db, stmt, params) }

Job_get(db, id) ==
    LET stmt == [verb |-> "SELECT", table |-> "companies",
                 where |-> <<"WHERE", "id", "=", "$1">>,
                 ret |-> JobReturning]
    IN  { IF r.err # "none"
          THEN Thrown(r.err, r.db, <<Tag(stmt)>>)
          ELSE IF FirstRow(r.rows) = Undefined
          THEN Thrown("NotFoundError", r.db, <<Tag(stmt)>>)
          ELSE Returned(FirstRow(r.rows), r.db, <<Tag(stmt)>>) :
          r \in DbQuery(db, stmt, <<id>>) }

Job_update(db, id, data) ==
    LET built == sqlForPartialUpdate(data, jobJsToSql) IN
    IF built.err # "none" THEN {Thrown(built.err, db, <<>>)}
    ELSE
    LET idVarIdx == Placeholder(Len(built.values) + 1)
        stmt == [verb |-> "UPDATE", table |-> "companies",
                 set |-> built.setCols,
                 where |-> <<"WHERE", "id", "=", idVarIdx>>,
                 ret |-> JobReturning]
    IN  { IF r.err # "none"
          THEN Thrown(r.err, r.db, <<Tag(stmt)>>)
          ELSE IF FirstRow(r.rows) = Undefined
          THEN Thrown("NotFoundError", r.db, <<Tag(stmt)>>)
          ELSE Returned(FirstRow(r.rows), r.db, <<Tag(stmt)>>) :
          r \in DbQuery(db, stmt, built.values \o <<id>>) }

\* a slip: the not-found test is left out
Job_remove_silent(db, id) ==
    LET stmt == [verb |-> "DELETE", table |-> "jobs",
                 where |-> <<"WHERE", "id", "=", "$1">>,
                 ret |-> << <<"id", "id">> >>]
    IN  { IF r.err # "none"
          THEN Thrown(r.err, r.db, <<Tag(stmt)>>)
          ELSE Returned(Undefined, r.db, <<Tag(stmt)>>) :
          r \in DbQuery(db, stmt, <<id>>) }

Job_remove(db, id) ==
    LET stmt == [verb |-> "DELETE", table |-> "jobs",
                 where |-> <<"WHERE", "id", "=", "$1">>,
                 ret |-> << <<"id", "id">> >>]
    IN  { IF r.err # "none"
          THEN Thrown(r.err, r.db, <<Tag(stmt)>>)
          ELSE IF FirstRow(r.rows) = Undefined
          THEN Thrown("NotFoundError", r.db, <<Tag(stmt)>>)
          ELSE Returned(Undefined, r.db, <<Tag(stmt)>>) :
          r \in DbQuery(db, stmt, <<id>>) }

\* Company.create up to its first await: the duplicate check.  An outcome
\* with err "await" goes on to the INSERT.
Company_create_check(db, data) ==
    LET check == [verb |-> "SELECT", table |-> "companies",
                  where |-> <<"WHERE", "handle", "=", "$1">>,
                  ret |-> << <<"handle", "handle">> >>]
    IN  { IF c.err # "none"
          THEN Thrown(c.err, c.db, <<Tag(check)>>)
          ELSE IF FirstRow(c.rows) # Undefined
          THEN Thrown("BadRequestError", c.db, <<Tag(check)>>)
          ELSE Thrown("await", c.db, <<Tag(check)>>) :
          c \in DbQuery(db, check, <<data.handle>>) }

\* Company.create from its second await: the INSERT
Company_create_insert(db, data, stmts) ==
    LET insert == [verb |-> "INSERT", table |-> "companies",
                   cols |-> <<"handle", "name", "description",
                              "num_employees", "logo_url">>,
                   ret |-> CompanyReturning]
        params == <<data.handle, data.name, data.description,
                    data.numEmployees, data.logoUrl>>
    IN  { IF r.err # "none"
          THEN Thrown(r.err, r.db, Append(stmts, Tag(insert)))
          ELSE Returned(FirstRow(r.rows), r.db, Append(stmts, Tag(insert))) :
          r \in DbQuery(db, insert, params) }

\* a slip: the duplicate check is left out
Company_create_noCheck(db, data) == Company_create_insert(db, data, <<>>)

\* a call of Company.create that no other request interleaves with
Company_create(db, data) ==
    UNION { IF c.err # "await" THEN {c}
            ELSE Company_create_insert(c.db, data, c.stmts) :
            c \in Company_create_check(db, data) }

Company_get(db, handle) ==
    LET stmt == [verb |-> "SELECT", table |-> "companies",
                 where |-> <<"WHERE", "handle", "=", "$1">>,
                 ret |-> CompanyReturning]
    IN  { IF r.err # "none"
          THEN Thrown(r.err, r.db, <<Tag(stmt)>>)
          ELSE IF FirstRow(r.rows) = Undefined
          THEN Thrown("NotFoundError", r.db, <<Tag(stmt)>>)
          ELSE Returned(FirstRow(r.rows), r.db, <<Tag(stmt)>>) :
          r \in DbQuery(db, stmt, <<handle>>) }

Company_update(db, handle, data) ==
    LET built == sqlForPartialUpdate(data, companyJsToSql) IN
    IF built.err # "none" THEN {Thrown(built.err, db, <<>>)}
    ELSE
    LET handleVarIdx == Placeholder(Len(built.values) + 1)
        stmt == [verb |-> "UPDATE", table |-> "companies",
                 set |-> built.setCols,
                 where |-> <<"WHERE", "handle", "=", handleVarIdx>>,
                 ret |-> CompanyReturning]
    IN  { IF r.err # "none"
          THEN Thrown(r.err, r.db, <<Tag(stmt)>>)
          ELSE IF FirstRow(r.rows) = Undefined
          THEN Thrown("NotFoundError", r.db, <<Tag(stmt)>>)
          ELSE Returned(FirstRow(r.rows), r.db, <<Tag(stmt)>>) :
          r \in DbQuery(db, stmt, built.values \o <<handle>>) }

Company_remove(db, handle) ==
    LET stmt == [verb |-> "DELETE", table |-> "companies",
                 where |-> <<"WHERE", "handle", "=", "$1">>,
                 ret |-> << <<"handle", "handle">> >>]
    IN  { IF r.err # "none"
          THEN Thrown(r.err, r.db, <<Tag(stmt)>>)
          ELSE IF FirstRow(r.rows) = Undefined
          THEN Thrown("NotFoundError", r.db, <<Tag(stmt)>>)
          ELSE Returned(Undefined, r.db, <<Tag(stmt)>>) :
          r \in DbQuery(db, stmt, <<handle>>) }

Job_findAll(db, queries) ==
    LET built == Job_whereBuilder(queries)
        stmt == [verb |-> "SELECT", table |-> "jobs",
                 where |-> built.whereClause,
                 ret |-> JobReturning,
                 order |-> "title"]
    IN  { IF r.err # "none"
          THEN Thrown(r.err, r.db, <<Tag(stmt)>>)
          ELSE Returned(r.rows, r.db, <<Tag(stmt)>>) :
          r \in DbQuery(db, stmt, built.values) }

\* a slip: the statement is sent before the filter is validated
Company_findAll_queryFirst(db, queries) ==
    LET sent == [verb |-> "SELECT", table |-> "companies",
                 where |-> <<>>,
                 ret |-> CompanyReturning,
                 order |-> "name"]
        built == Company_whereBuilder(queries)
    IN  IF built.err # "none"
        THEN { Thrown(built.err, r.db, <<Tag(sent)>>) :
               r \in DbQuery(db, sent, <<>>) }
        ELSE
        LET stmt == [sent EXCEPT !.where = built.whereClause]
        IN  { IF r.err # "none"
              THEN Thrown(r.err, r.db, <<Tag(stmt)>>)
              ELSE Returned(r.rows, r.db, <<Tag(stmt)>>) :
              r \in DbQuery(db, stmt, built.values) }

Company_findAll(db, queries) ==
    LET built == Company_whereBuilder(queries) IN
    IF built.err # "none" THEN {Thrown(built.err, db, <<>>)}
    ELSE
    LET stmt == [verb |-> "SELECT", table |-> "companies",
                 where |-> built.whereClause,
                 ret |-> CompanyReturning,
                 order |-> "name"]
    IN  { IF r.err # "none"
          THEN Thrown(r.err, r.db, <<Tag(stmt)>>)
          ELSE Returned(r.rows, r.db, <<Tag(stmt)>>) :
          r \in DbQuery(db, stmt, built.values) }

-----------------------------------------------------------------------------
(* Inputs of the builders                                                   *)

\* the longest update mapping drawn for sqlForPartialUpdate
MaxKeys == 3

\* every object literal of at most n properties, vals the table of the
\* values each property name may hold
RECURSIVE ObjectsOver(_, _)
ObjectsOver(vals, n) ==
    IF n = 0 THEN {<<>>}
    ELSE LET shorter == ObjectsOver(vals, n - 1) IN
         shorter \cup
         UNION { UNION { { Append(o, [k |-> key, v |-> val]) :
                             val \in vals[key] } :
                         key \in { x \in DOMAIN vals :
                                     \A i \in 1..Len(o) : o[i].k # x } } :
                 o \in { x \in shorter : Len(x) = n - 1 } }

UpdateValues ==
    [name |-> {StrV(<<"N">>)},
     title |-> {StrV(<<"N">>), Null},
     numEmployees |-> {IntV(0), Null},
     logoUrl |-> {StrV(<<"u">>), Null}]

UpdateObjects == ObjectsOver(UpdateValues, MaxKeys)

\* the translation tables: Job.update's, Company.update's, one with an
\* empty entry
TranslationTables ==
    {jobJsToSql, companyJsToSql, [name |-> "full_name", title |-> ""]}

\* the largest number drawn for minEmployees, maxEmployees and minSalary
MaxCount == 2

FilterNumbers == {IntV(n) : n \in 0..MaxCount}

\* title is no criterion of Company, nameLike none of Job
CompanyFilterValues ==
    [minEmployees |-> FilterNumbers,
     maxEmployees |-> FilterNumbers,
     nameLike |-> {StrV(<<>>), StrV(<<"c">>)},
     title |-> {StrV(<<"J">>)}]

JobFilterValues ==
    [minSalary |-> FilterNumbers,
     hasEquity |-> {BoolV(TRUE), BoolV(FALSE)},
     title |-> {StrV(<<>>), StrV(<<"J">>)},
     nameLike |-> {StrV(<<"c">>)}]

\* no argument, or an object literal with its properties in any order
CompanyFilterArgs ==
    {Undefined} \cup
    {ObjV(o) : o \in ObjectsOver(CompanyFilterValues,
                                 Cardinality(DOMAIN CompanyFilterValues))}

JobFilterArgs ==
    {Undefined} \cup
    {ObjV(o) : o \in ObjectsOver(JobFilterValues,
                                 Cardinality(DOMAIN JobFilterValues))}

-----------------------------------------------------------------------------
(* Inputs of the repository operations                                      *)

\* the most jobs ever inserted (the ids the jobs sequence hands out)
MaxJobs == 2

H1 == StrV(<<"c", "1">>)
H2 == StrV(<<"c", "2">>)
Handles == {H1, H2}

JobIds == {IntV(i) : i \in 1..MaxJobs}

CompanyCreateInputs ==
    { [handle |-> h, name |-> StrV(<<"C">>), description |-> StrV(<<"D">>),
       numEmployees |-> IntV(2), logoUrl |-> Null] : h \in Handles }

CompanyUpdateInputs ==
    { <<>>,
      <<[k |-> "name", v |-> StrV(<<"N">>)]>>,
      <<[k |-> "handle", v |-> H2]>>,
      <<[k |-> "numEmployees", v |-> Null],
        [k |-> "logoUrl", v |-> StrV(<<"u">>)]>> }

JobCreateInputs ==
    { [title |-> StrV(<<"J">>), salary |-> IntV(10), equity |-> NumV(10),
       companyHandle |-> H1],
      [title |-> StrV(<<"K">>), salary |-> Null, equity |-> Null,
       companyHandle |-> H2] }

JobUpdateInputs ==
    { <<>>,
      <<[k |-> "title", v |-> StrV(<<"N">>)], [k |-> "salary", v |-> IntV(500)],
        [k |-> "equity", v |-> NumV(99)]>>,
      <<[k |-> "title", v |-> StrV(<<"N">>)], [k |-> "salary", v |-> Null],
        [k |-> "equity", v |-> Null]>> }

\* the filters given to findAll: none, or an object with any of the entity's
\* criteria
CompanyFindAllArgs ==
    {Undefined} \cup
    { ObjV(SelectSeq(<<[k |-> "minEmployees", v |-> lo],
                       [k |-> "maxEmployees", v |-> hi],
                       [k |-> "nameLike", v |-> text]>>,
                     LAMBDA e : e.v # Undefined)) :
        lo \in FilterNumbers \cup {Undefined},
        hi \in FilterNumbers \cup {Undefined},
        text \in {Undefined, StrV(<<"c">>)} }

JobFindAllArgs ==
    {Undefined} \cup
    { ObjV(SelectSeq(<<[k |-> "minSalary", v |-> lo],
                       [k |-> "hasEquity", v |-> eq],
                       [k |-> "title", v |-> text]>>,
                     LAMBDA e : e.v # Undefined)) :
        lo \in {Undefined, IntV(0), IntV(11)},
        eq \in {Undefined, BoolV(TRUE), BoolV(FALSE)},
        text \in {Undefined, StrV(<<"j">>), StrV(<<"%">>)} }

-----------------------------------------------------------------------------
(* State                                                                    *)

NoCall == [op |-> "none"]

\* the most requests in flight at once
MaxCallers == 2

Callers == 1..MaxCallers

\* a request that has not called yet
Idle == [pc |-> "idle"]

Init ==
    /\ companies = {}
    /\ jobs = {}
    /\ nextId = 1
    /\ last = NoCall
    /\ calls = [p \in Callers |-> Idle]

Db == [companies |-> companies, jobs |-> jobs, nextId |-> nextId]

\* one call of a repository operation, from its start to its return or throw
Finish(op, args, outcomes) ==
    \E o \in outcomes :
        /\ companies' = o.db.companies
        /\ jobs' = o.db.jobs
        /\ nextId' = o.db.nextId
        /\ last' = [op |-> op, args |-> args, err |-> o.err, ret |-> o.ret,
                    stmts |-> o.stmts, pre |-> Db]
        /\ UNCHANGED calls

CallJobCreate ==
    /\ nextId <= MaxJobs
    /\ \E data \in JobCreateInputs :
         Finish("Job.create", <<data>>, Job_create(Db, data))

CallJobGet ==
    \E id \in JobIds : Finish("Job.get", <<id>>, Job_get(Db, id))

CallJobUpdate ==
    \E id \in JobIds, data \in JobUpdateInputs :
        Finish("Job.update", <<id, data>>, Job_update(Db, id, data))

CallJobRemove ==
    \E id \in JobIds : Finish("Job.remove", <<id>>, Job_remove(Db, id))

CallCompanyCreate ==
    \E data \in CompanyCreateInputs :
        Finish("Company.create", <<data>>, Company_create(Db, data))

CallCompanyGet ==
    \E h \in Handles : Finish("Company.get", <<h>>, Company_get(Db, h))

CallCompanyUpdate ==
    \E h \in Handles, data \in CompanyUpdateInputs :
        Finish("Company.update", <<h, data>>, Company_update(Db, h, data))

CallCompanyRemove ==
    \E h \in Handles : Finish("Company.remove", <<h>>, Company_remove(Db, h))

CallJobFindAll ==
    \E q \in JobFindAllArgs :
        Finish("Job.findAll", <<q>>, Job_findAll(Db, q))

CallCompanyFindAll ==
    \E q \in CompanyFindAllArgs :
        Finish("Company.findAll", <<q>>, Company_findAll(Db, q))

Next ==
    \/ CallJobCreate
    \/ CallJobGet
    \/ CallJobUpdate
    \/ CallJobRemove
    \/ CallCompanyCreate
    \/ CallCompanyGet
    \/ CallCompanyUpdate
    \/ CallCompanyRemove

Spec == Init /\ [][Next]_vars

\* the reads of whole tables, among the writes that fill and change them
NextFind ==
    \/ CallJobFindAll
    \/ CallCompanyFindAll
    \/ CallJobCreate
    \/ CallJobUpdate
    \/ CallCompanyCreate
    \/ CallCompanyUpdate

SpecFind == Init /\ [][NextFind]_vars

\* the calls that validate their input, among the creates that fill the store
NextValidate ==
    \/ CallCompanyFindAll
    \/ CallCompanyUpdate
    \/ CallJobUpdate
    \/ CallCompanyCreate
    \/ CallJobCreate

SpecValidate == Init /\ [][NextValidate]_vars

\* a direct call of sqlForPartialUpdate
CallSqlForPartialUpdate ==
    \E data \in UpdateObjects, tbl \in TranslationTables :
        /\ last' = [op |-> "sqlForPartialUpdate",
                    data |-> data,
                    jsToSql |-> tbl,
                    res |-> sqlForPartialUpdate(data, tbl)]
        /\ UNCHANGED <<companies, jobs, nextId, calls>>

\* a direct call of Company.whereBuilder
CallCompanyWhereBuilder ==
    \E q \in CompanyFilterArgs :
        /\ last' = [op |-> "Company.whereBuilder",
                    queries |-> q,
                    res |-> Company_whereBuilder(q)]
        /\ UNCHANGED <<companies, jobs, nextId, calls>>

\* a direct call of Job.whereBuilder
CallJobWhereBuilder ==
    \E q \in JobFilterArgs :
        /\ last' = [op |-> "Job.whereBuilder",
                    queries |-> q,
                    res |-> Job_whereBuilder(q)]
        /\ UNCHANGED <<companies, jobs, nextId, calls>>

NextWhere == CallCompanyWhereBuilder \/ CallJobWhereBuilder

SpecWhere == Init /\ [][NextWhere]_vars

NextSql == CallSqlForPartialUpdate

SpecSql == Init /\ [][NextSql]_vars

-----------------------------------------------------------------------------
(* Requests in flight at once.  A call of Company.create gives way to other *)
(* requests at each of its awaits.                                          *)

\* what the requests in flight create: the same handle may come with
\* different data
ConcurrentCreateInputs ==
    CompanyCreateInputs \cup
    { [c EXCEPT !.name = StrV(<<"N">>), !.logoUrl = StrV(<<"u">>)] :
        c \in CompanyCreateInputs }

StartCompanyCreate(p) ==
    /\ calls[p].pc = "idle"
    /\ \E data \in ConcurrentCreateInputs :
         calls' = [calls EXCEPT ![p] = [pc |-> "check", data |-> data]]
    /\ UNCHANGED <<companies, jobs, nextId, last>>

\* the call runs to its first await and on to what that query's answer
\* decides
CompanyCreateCheck(p) ==
    /\ calls[p].pc = "check"
    /\ \E o \in Company_create_check(Db, calls[p].data) :
         /\ companies' = o.db.companies
         /\ jobs' = o.db.jobs
         /\ nextId' = o.db.nextId
         /\ calls' = [calls EXCEPT ![p] =
                IF o.err = "await"
                THEN [pc |-> "insert", data |-> calls[p].data,
                      stmts |-> o.stmts]
                ELSE [pc |-> "done", data |-> calls[p].data, err |-> o.err,
                      ret |-> o.ret, stmts |-> o.stmts]]
    /\ UNCHANGED last

CompanyCreateInsert(p) ==
    /\ calls[p].pc = "insert"
    /\ \E o \in Company_create_insert(Db, calls[p].data, calls[p].stmts) :
         /\ companies' = o.db.companies
         /\ jobs' = o.db.jobs
         /\ nextId' = o.db.nextId
         /\ calls' = [calls EXCEPT ![p] =
                [pc |-> "done", data |-> calls[p].data, err |-> o.err,
                 ret |-> o.ret, stmts |-> o.stmts]]
    /\ UNCHANGED last

NextConc ==
    \E p \in Callers :
        \/ StartCompanyCreate(p)
        \/ CompanyCreateCheck(p)
        \/ CompanyCreateInsert(p)

SpecConc == Init /\ [][NextConc]_vars

-----------------------------------------------------------------------------
(* The authorization middleware (middleware/auth.js).  A request's context  *)
(* is res.locals; a middleware either calls next() or throws.               *)

\* the secret the service signs and verifies credentials with
SECRET_KEY == "secret"

\* jwt.sign(payload, key): a credential carries its claims, the key that
\* signed it and whether its lifetime is over
jwt_sign(payload, key, expired) ==
    [payload |-> payload, key |-> key, expired |-> expired]

\* jwt.verify(token, key): the claims, with the time of issue, or a failure
jwt_verify(token, key) ==
    IF token.key = key /\ ~token.expired
    THEN [ok |-> TRUE,
          claims |-> [username |-> token.payload.username,
                      isAdmin |-> token.payload.isAdmin,
                      iat |-> IntV(1)]]
    ELSE [ok |-> FALSE]

Passed(locals) == [err |-> "none", next |-> TRUE, locals |-> locals]

Refused(locals) ==
    [err |-> "UnauthorizedError", next |-> FALSE, locals |-> locals]

\* a slip: a credential that does not verify fails the request
authenticateJWT_strict(req, locals) ==
    IF req.headers = Undefined \/ req.headers.authorization = Undefined
    THEN Passed(locals)
    ELSE LET verified == jwt_verify(req.headers.authorization.v, SECRET_KEY)
         IN  IF verified.ok
             THEN Passed([locals EXCEPT !.user = verified.claims])
             ELSE Refused(locals)

\* credential extraction: attach the verified claims, or go on without them
authenticateJWT(req, locals) ==
    IF req.headers = Undefined \/ req.headers.authorization = Undefined
    THEN Passed(locals)
    ELSE LET verified == jwt_verify(req.headers.authorization.v, SECRET_KEY)
         IN  IF verified.ok
             THEN Passed([locals EXCEPT !.user = verified.claims])
             ELSE Passed(locals)

\* the request has a caller identity that names a user
LoggedIn(locals) ==
    locals.user # Undefined /\ Truthy(locals.user.username)

ensureLoggedIn(req, locals) ==
    IF LoggedIn(locals) THEN Passed(locals) ELSE Refused(locals)

ensureIsAdmin(req, locals) ==
    IF locals.user # Undefined /\ locals.user.isAdmin = BoolV(TRUE)
    THEN Passed(locals)
    ELSE Refused(locals)

\* a slip: any logged-in caller passes
ensureIsCurrentUserOrAdmin_anyUser(req, locals) ==
    IF LoggedIn(locals) THEN Passed(locals) ELSE Refused(locals)

ensureIsCurrentUserOrAdmin(req, locals) ==
    IF /\ locals.user # Undefined
       /\ \/ locals.user.isAdmin = BoolV(TRUE)
          \/ /\ Truthy(locals.user.username)
             /\ locals.user.username = req.params.username
    THEN Passed(locals)
    ELSE Refused(locals)

\* the claims credentials are signed with: with or without a username, the
\* administrator flag set, cleared or missing
TokenPayloads ==
    { [username |-> u, isAdmin |-> a] :
        u \in {StrV(<<"a">>), StrV(<<"b">>), Undefined},
        a \in {BoolV(TRUE), BoolV(FALSE), Undefined} }

\* signed with the service's secret or another, in date or expired
Tokens ==
    { jwt_sign(p, k, e) :
        p \in TokenPayloads, k \in {SECRET_KEY, "wrong"}, e \in BOOLEAN }

\* the header value `Bearer ${token}`
Bearer(token) == [t |-> "bearer", v |-> token]

\* no headers at all, no authorization header, or a bearer credential
RequestHeaders ==
    {Undefined, [authorization |-> Undefined]} \cup
    { [authorization |-> Bearer(tok)] : tok \in Tokens }

Requests ==
    { [headers |-> h, params |-> [username |-> u]] :
        h \in RequestHeaders, u \in {StrV(<<"a">>), StrV(<<"b">>)} }

\* a request comes in: the context starts empty and credential extraction
\* runs first
CallAuthenticateJWT ==
    /\ \E req \in Requests :
         LET out == authenticateJWT(req, [user |-> Undefined]) IN
         last' = [op |-> "authenticateJWT", req |-> req,
                  before |-> [user |-> Undefined],
                  locals |-> out.locals, err |-> out.err, next |-> out.next]
    /\ UNCHANGED <<companies, jobs, nextId, calls>>

\* the request is still on its way through the chain
InChain ==
    /\ last.op \in {"authenticateJWT", "ensureLoggedIn", "ensureIsAdmin",
                    "ensureIsCurrentUserOrAdmin"}
    /\ last.next

CallEnsureLoggedIn ==
    /\ InChain
    /\ LET out == ensureLoggedIn(last.req, last.locals) IN
       last' = [op |-> "ensureLoggedIn", req |-> last.req,
                before |-> last.locals,
                locals |-> out.locals, err |-> out.err, next |-> out.next]
    /\ UNCHANGED <<companies, jobs, nextId, calls>>

CallEnsureIsAdmin ==
    /\ InChain
    /\ LET out == ensureIsAdmin(last.req, last.locals) IN
       last' = [op |-> "ensureIsAdmin", req |-> last.req,
                before |-> last.locals,
                locals |-> out.locals, err |-> out.err, next |-> out.next]
    /\ UNCHANGED <<companies, jobs, nextId, calls>>

CallEnsureIsCurrentUserOrAdmin ==
    /\ InChain
    /\ LET out == ensureIsCurrentUserOrAdmin(last.req, last.locals) IN
       last' = [op |-> "ensureIsCurrentUserOrAdmin", req |-> last.req,
                before |-> last.locals,
                locals |-> out.locals, err |-> out.err, next |-> out.next]
    /\ UNCHANGED <<companies, jobs, nextId, calls>>

NextAuth ==
    \/ CallAuthenticateJWT
    \/ CallEnsureLoggedIn
    \/ CallEnsureIsAdmin
    \/ CallEnsureIsCurrentUserOrAdmin

SpecAuth == Init /\ [][NextAuth]_vars

-----------------------------------------------------------------------------
(* Reading a builder's result                                               *)

Range(seq) == {seq[i] : i \in 1..Len(seq)}

FilterObject(arg) == IF arg.t = "object" THEN arg.v ELSE <<>>

Present(q, key) == \E i \in 1..Len(q) : q[i].k = key

CompanyOrder == <<"minEmployees", "maxEmployees", "nameLike">>
JobOrder == <<"minSalary", "hasEquity", "title">>
OrderOf(op) == IF op = "Company.whereBuilder" THEN CompanyOrder ELSE JobOrder

CondText ==
    [minEmployees |-> <<"num_employees", ">=">>,
     maxEmployees |-> <<"num_employees", "<=">>,
     nameLike |-> <<"name", "ILIKE">>,
     minSalary |-> <<"salary", ">=">>,
     hasEquity |-> <<"equity", ">">>,
     title |-> <<"title", "ILIKE">>]

\* the value a criterion's condition is to carry
ExpectedValue(key, q) ==
    CASE key \in {"nameLike", "title"} ->
             StrV(<<"%">> \o Prop(q, key).v \o <<"%">>)
      [] key = "hasEquity" -> IntV(0)
      [] OTHER -> Prop(q, key)

\* res holds exactly the conditions of the criteria ks, in this order, the
\* k-th with placeholder $k and its value at position k of values
ClauseReads(res, ks, q) ==
    /\ res.err = "none"
    /\ Len(res.values) = Len(ks)
    /\ Len(res.whereClause) = 4 * Len(ks)
    /\ \A k \in 1..Len(ks) :
         /\ res.whereClause[4 * k - 3] = (IF k = 1 THEN "WHERE" ELSE "AND")
         /\ res.whereClause[4 * k - 2] = CondText[ks[k]][1]
         /\ res.whereClause[4 * k - 1] = CondText[ks[k]][2]
         /\ res.whereClause[4 * k] = Placeholder(k)
         /\ res.values[k] = ExpectedValue(ks[k], q)

Emitted(order, S) == SelectSeq(order, LAMBDA k : k \in S)

\* the sets of present criteria whose conditions, in the fixed order, res holds
EmittedSets(res, order, q) ==
    { S \in SUBSET Range(order) :
        /\ \A k \in S : Present(q, k)
        /\ ClauseReads(res, Emitted(order, S), q) }

IsWhereCall == last.op \in {"Company.whereBuilder", "Job.whereBuilder"}

-----------------------------------------------------------------------------
(* Claims                                                                   *)

\* the job the call's first argument names, as stored before the call
JobBefore == {j \in last.pre.jobs : j.id = last.args[1]}

\* the company the call's first argument names, as stored before the call
CompanyBefore == {c \in last.pre.companies : c.handle = last.args[1]}

StoreUnchanged ==
    /\ companies = last.pre.companies
    /\ jobs = last.pre.jobs
    /\ nextId = last.pre.nextId

\* C1 (as claimed): Job.get(id) of a Job that Job.create stored under id,
\* neither updated nor removed since, raises no not-found and returns its
\* title, salary, equity and companyHandle as given to create.
C1_JobRoundTrip ==
    (last.op = "Job.get" /\ JobBefore # {}) =>
        LET j == CHOOSE x \in JobBefore : TRUE IN
        /\ last.err = "none"
        /\ last.ret.title = j.title
        /\ last.ret.salary = j.salary
        /\ last.ret.equity = j.equity
        /\ last.ret.companyHandle = j.company_handle

\* C2 (as claimed): Job.update(id, data) of a stored Job with a non-empty
\* data over title, salary, equity raises no not-found, returns the Job's
\* record with exactly the fields of data replaced, stores the same values
\* and leaves every other record of Job and of Company unchanged.
C2_JobUpdateApplies ==
    (last.op = "Job.update" /\ Len(last.args[2]) > 0 /\ JobBefore # {}) =>
        LET j == CHOOSE x \in JobBefore : TRUE
            data == last.args[2]
            want == [c \in DOMAIN j |->
                        IF Present(data, c) THEN Prop(data, c) ELSE j[c]]
        IN  /\ last.err = "none"
            /\ last.ret.title = want.title
            /\ last.ret.salary = want.salary
            /\ last.ret.equity = want.equity
            /\ last.ret.companyHandle = j.company_handle
            /\ jobs = (last.pre.jobs \ {j}) \cup {want}
            /\ companies = last.pre.companies

\* C3: for a non-empty mapping, sqlForPartialUpdate returns one assignment
\* per key in key order, the i-th with placeholder $i, and values whose i-th
\* element is the i-th key's value (null included).
C3_PartialUpdateShape ==
    (last.op = "sqlForPartialUpdate" /\ Len(last.data) > 0) =>
        LET n == Len(last.data)
            res == last.res
            names == {last.jsToSql[k] : k \in DOMAIN last.jsToSql}
        IN  /\ res.err = "none"
            /\ Len(res.values) = n
            /\ Len(res.setCols) = 4 * n - 1
            /\ \A i \in 1..n :
                 /\ res.values[i] = last.data[i].v
                 /\ res.setCols[4 * i - 3] \in
                        {Quoted(c) : c \in {last.data[i].k} \cup names}
                 /\ res.setCols[4 * i - 2] = "="
                 /\ res.setCols[4 * i - 1] = Placeholder(i)
                 /\ i < n => res.setCols[4 * i] = ","

C3_Witness ==
    /\ last.op = "sqlForPartialUpdate"
    /\ Len(last.data) = 3
    /\ last.data[2].v = Null
    /\ last.res.err = "none"
    /\ last.res.setCols[11] = "$3"

\* C4: for an empty mapping and any translation table sqlForPartialUpdate
\* raises BadRequestError and returns no fragment; so Company.update and
\* Job.update with an empty mapping raise BadRequestError for every
\* identifier, stored or not.
C4_EmptyUpdateRejected ==
    /\ \A tbl \in TranslationTables :
           sqlForPartialUpdate(<<>>, tbl) = [err |-> "BadRequestError"]
    /\ (last.op \in {"Company.update", "Job.update"} /\ last.args[2] = <<>>) =>
           /\ last.err = "BadRequestError"
           /\ last.ret = Undefined

C4_Witness ==
    /\ last.op = "Job.update"
    /\ last.args[2] = <<>>
    /\ JobBefore # {}
    /\ last.err = "BadRequestError"

\* C5: the conditions are emitted in the fixed order (Company: minEmployees,
\* maxEmployees, nameLike; Job: minSalary, hasEquity, title) whatever the
\* order of the input's fields, the k-th with placeholder $k and its value
\* at position k of values.
C5_EmissionOrder ==
    (IsWhereCall /\ last.res.err = "none") =>
        EmittedSets(last.res, OrderOf(last.op), FilterObject(last.queries)) # {}

C5_Witness ==
    /\ last.op = "Company.whereBuilder"
    /\ last.queries.t = "object"
    /\ ObjectKeys(last.queries.v) = <<"nameLike", "maxEmployees", "minEmployees">>
    /\ last.res.err = "none"
    /\ last.res.whereClause =
         <<"WHERE", "num_employees", ">=", "$1",
           "AND", "num_employees", "<=", "$2",
           "AND", "name", "ILIKE", "$3">>

\* C6 (as claimed): every present criterion among minEmployees, maxEmployees,
\* nameLike, minSalary and title contributes exactly one condition, for
\* every value in its domain, 0 and the empty string included.
C6_EveryPresentCriterionEmitted ==
    (IsWhereCall /\ last.res.err = "none") =>
        LET q == FilterObject(last.queries)
            order == OrderOf(last.op)
        IN  \E S \in EmittedSets(last.res, order, q) :
                S \ {"hasEquity"} =
                    {k \in Range(order) \ {"hasEquity"} : Present(q, k)}

\* C7: Company.whereBuilder raises BadRequestError, with no clause and no
\* value produced, exactly when minEmployees and maxEmployees are both
\* present and minEmployees > maxEmployees.
C7_MinMaxValidation ==
    last.op = "Company.whereBuilder" =>
        LET q == FilterObject(last.queries)
            bad == /\ Present(q, "minEmployees")
                   /\ Present(q, "maxEmployees")
                   /\ Prop(q, "minEmployees").v > Prop(q, "maxEmployees").v
        IN  /\ bad => last.res = [err |-> "BadRequestError"]
            /\ ~bad => last.res.err = "none"

C7_Witness ==
    /\ last.op = "Company.whereBuilder"
    /\ last.queries.t = "object"
    /\ Prop(last.queries.v, "minEmployees") = IntV(2)
    /\ Prop(last.queries.v, "maxEmployees") = IntV(1)
    /\ Present(last.queries.v, "nameLike")
    /\ last.res.err = "BadRequestError"

C9_HasEquity ==
    last.op = "Job.whereBuilder" =>
        LET q == FilterObject(last.queries) IN
        \E S \in EmittedSets(last.res, JobOrder, q) :
            ("hasEquity" \in S) <=> (Prop(q, "hasEquity") = BoolV(TRUE))

C9_Witness ==
    /\ last.op = "Job.whereBuilder"
    /\ last.queries.t = "object"
    /\ Prop(last.queries.v, "hasEquity") = BoolV(TRUE)
    /\ Len(last.res.values) = 3
    /\ last.res.whereClause[6] = "equity"
    /\ last.res.whereClause[8] = "$2"
    /\ last.res.values[2] = IntV(0)

IsRemove == last.op \in {"Job.remove", "Company.remove"}

\* the rows the remove's identifier names, as stored before the call
RemoveTarget == IF last.op = "Job.remove" THEN JobBefore ELSE CompanyBefore

\* C10 (as claimed): remove of an absent identifier raises NotFoundError and
\* leaves the store unchanged; remove of a present identifier deletes
\* exactly that record and raises no error.
C10_RemoveExactlyThatRecord ==
    IsRemove =>
        /\ RemoveTarget = {} => (last.err = "NotFoundError" /\ StoreUnchanged)
        /\ RemoveTarget # {} =>
             /\ last.err = "none"
             /\ jobs = (IF last.op = "Job.remove"
                        THEN last.pre.jobs \ RemoveTarget ELSE last.pre.jobs)
             /\ companies = (IF last.op = "Company.remove"
                             THEN last.pre.companies \ RemoveTarget
                             ELSE last.pre.companies)

\* C10 (amended): remove of an absent identifier raises NotFoundError and
\* leaves the store unchanged (so a second remove of a removed identifier
\* raises not-found); Job.remove of a stored id, and Company.remove of a
\* stored handle that no Job refers to, delete exactly that record and raise
\* no error.
C10_RemoveNotFoundOrDeletes ==
    IsRemove =>
        /\ RemoveTarget = {} => (last.err = "NotFoundError" /\ StoreUnchanged)
        /\ (RemoveTarget # {} /\ last.op = "Job.remove") =>
             /\ last.err = "none"
             /\ jobs = last.pre.jobs \ RemoveTarget
             /\ companies = last.pre.companies
        /\ (/\ RemoveTarget # {}
            /\ last.op = "Company.remove"
            /\ \A j \in last.pre.jobs : j.company_handle # last.args[1]) =>
             /\ last.err = "none"
             /\ companies = last.pre.companies \ RemoveTarget
             /\ jobs = last.pre.jobs

\* a second remove of an id the store once handed out
C10_Witness ==
    /\ last.op = "Job.remove"
    /\ last.args[1].v < last.pre.nextId
    /\ RemoveTarget = {}
    /\ last.err = "NotFoundError"

\* C11: Company.create with a handle already in the store raises
\* BadRequestError and leaves the store unchanged; with a handle not in the
\* store it inserts exactly one company and returns { handle, name,
\* description, numEmployees, logoUrl } equal to its input.  After any run of
\* calls, no two stored companies share a handle.
C11_CreateRejectsDuplicate ==
    /\ \A c1, c2 \in companies : c1.handle = c2.handle => c1 = c2
    /\ last.op = "Company.create" =>
         LET data == last.args[1]
             stored ==
                 {c \in last.pre.companies : c.handle = data.handle}
         IN
         /\ stored # {} =>
              (last.err = "BadRequestError" /\ StoreUnchanged)
         /\ stored = {} =>
              /\ last.err = "none"
              /\ last.ret = data
              /\ jobs = last.pre.jobs
              /\ Cardinality(companies) = Cardinality(last.pre.companies) + 1
              /\ \E c \in companies \ last.pre.companies :
                   /\ companies = last.pre.companies \cup {c}
                   /\ c.handle = data.handle
                   /\ c.name = data.name
                   /\ c.description = data.description
                   /\ c.num_employees = data.numEmployees
                   /\ c.logo_url = data.logoUrl

\* a create of a handle that is stored, next to another stored company
C11_Witness ==
    /\ last.op = "Company.create"
    /\ last.err = "BadRequestError"
    /\ \E c \in last.pre.companies : c.handle = last.args[1].handle
    /\ Cardinality(companies) = 2

\* C12 (as claimed): of two concurrent Company.create calls with the same
\* handle, in every interleaving, exactly one returns the created record and
\* the other fails with BadRequestError, and the store ends with exactly one
\* company of that handle.
C12_ConcurrentCreateDuplicate ==
    \A p, q \in Callers :
        (/\ p # q
         /\ calls[p].pc = "done"
         /\ calls[q].pc = "done"
         /\ calls[p].data.handle = calls[q].data.handle) =>
            /\ {calls[p].err, calls[q].err} = {"none", "BadRequestError"}
            /\ \A r \in {p, q} :
                 calls[r].err = "none" => calls[r].ret = calls[r].data
            /\ Cardinality({c \in companies :
                               c.handle = calls[p].data.handle}) = 1

\* C13 (as claimed): Job.create returns the stored Job with its
\* store-assigned id and with title, salary, equity and companyHandle equal
\* to its input; Company.create returns no generated identifier.
C13_JobCreateReturnsId ==
    /\ (last.op = "Job.create" /\ last.err = "none") =>
         LET data == last.args[1] IN
         /\ "id" \in DOMAIN last.ret
         /\ \E j \in jobs \ last.pre.jobs : last.ret.id = j.id
         /\ last.ret.title = data.title
         /\ last.ret.salary = data.salary
         /\ last.ret.equity = data.equity
         /\ last.ret.companyHandle = data.companyHandle
    /\ (last.op = "Company.create" /\ last.err = "none") =>
         "id" \notin DOMAIN last.ret

\* C14 (as claimed): Company.get(handle) of a stored handle returns the
\* company's record with its related Jobs (exactly the stored Jobs whose
\* companyHandle is handle); of a handle not stored it raises NotFoundError.
C14_CompanyGetWithJobs ==
    last.op = "Company.get" =>
        /\ CompanyBefore = {} => last.err = "NotFoundError"
        /\ CompanyBefore # {} =>
             /\ last.err = "none"
             /\ \E c \in CompanyBefore :
                  /\ last.ret.handle = c.handle
                  /\ last.ret.name = c.name
                  /\ last.ret.description = c.description
                  /\ last.ret.numEmployees = c.num_employees
                  /\ last.ret.logoUrl = c.logo_url
             /\ "jobs" \in DOMAIN last.ret
             /\ Len(last.ret.jobs) =
                  Cardinality({j \in jobs : j.company_handle = last.args[1]})
             /\ {last.ret.jobs[i].id : i \in 1..Len(last.ret.jobs)} =
                  {j.id : j \in {x \in jobs :
                                    x.company_handle = last.args[1]}}

\* text contains part, letter case aside
Contains(text, part) ==
    \E i \in 0..(Len(text) - Len(part)) :
        \A k \in 1..Len(part) : Lower(text[i + k]) = Lower(part[k])

\* the stored job satisfies every criterion the filter q supplies
JobSatisfies(j, q) ==
    /\ Present(q, "minSalary") =>
         /\ j.salary # Null
         /\ Hundredths(j.salary) >= Hundredths(Prop(q, "minSalary"))
    /\ Prop(q, "hasEquity") = BoolV(TRUE) =>
         (j.equity # Null /\ Hundredths(j.equity) > 0)
    /\ Present(q, "title") =>
         (j.title # Null /\ Contains(j.title.v, Prop(q, "title").v))

\* the stored company satisfies every criterion the filter q supplies
CompanySatisfies(c, q) ==
    /\ Present(q, "minEmployees") =>
         /\ c.num_employees # Null
         /\ Hundredths(c.num_employees) >= Hundredths(Prop(q, "minEmployees"))
    /\ Present(q, "maxEmployees") =>
         /\ c.num_employees # Null
         /\ Hundredths(c.num_employees) <= Hundredths(Prop(q, "maxEmployees"))
    /\ Present(q, "nameLike") =>
         (c.name # Null /\ Contains(c.name.v, Prop(q, "nameLike").v))

\* the filter asks for more employees at least than at most
MinAboveMax(q) ==
    /\ Present(q, "minEmployees")
    /\ Present(q, "maxEmployees")
    /\ Prop(q, "minEmployees").v > Prop(q, "maxEmployees").v

\* ret holds exactly the rows wanted, as the list ret reads them, sorted by
\* the field key
ReturnsSorted(ret, wanted, returning, key) ==
    /\ \E s \in RowOrders(wanted) :
         ret = [i \in 1..Len(s) |-> Project(s[i], returning)]
    /\ \A i, j \in 1..Len(ret) :
         i < j => ~SortsBefore(ret[j][key], ret[i][key])

\* C15 (as claimed): Job.findAll and Company.findAll return exactly the
\* stored records that satisfy all supplied criteria, ordered by title (Job)
\* or name (Company): all records with no filter, an empty sequence and no
\* error with no match; findAll leaves the store unchanged.
C15_FindAllReturnsMatches ==
    LET q == FilterObject(last.args[1]) IN
    /\ last.op = "Job.findAll" =>
         /\ last.err = "none"
         /\ StoreUnchanged
         /\ ReturnsSorted(last.ret,
                          {j \in last.pre.jobs : JobSatisfies(j, q)},
                          JobReturning, "title")
    /\ (last.op = "Company.findAll" /\ ~MinAboveMax(q)) =>
         /\ last.err = "none"
         /\ StoreUnchanged
         /\ ReturnsSorted(last.ret,
                          {c \in last.pre.companies : CompanySatisfies(c, q)},
                          CompanyReturning, "name")

\* C16 (as claimed): a Company's handle never changes: in every reachable
\* store state, for every handle h and every mapping data that
\* Company.update(h, data) accepts, the handles in the store are the same
\* before and after the call and the returned record's handle is h.
C16_HandleNeverChanges ==
    (last.op = "Company.update" /\ last.err = "none") =>
        /\ {c.handle : c \in companies} = {c.handle : c \in last.pre.companies}
        /\ last.ret.handle = last.args[1]

\* C17: validation failures precede any store access: Company.update and
\* Job.update with an empty mapping, and Company.findAll with
\* minEmployees > maxEmployees, raise BadRequestError without having issued
\* any statement to the store, and the store is unchanged.
C17_ValidationBeforeStore ==
    (\/ last.op \in {"Company.update", "Job.update"} /\ last.args[2] = <<>>
     \/ /\ last.op = "Company.findAll"
        /\ MinAboveMax(FilterObject(last.args[1]))) =>
        /\ last.err = "BadRequestError"
        /\ last.stmts = <<>>
        /\ StoreUnchanged

\* a findAll whose bounds cross, on a store that has companies to return
C17_Witness ==
    /\ last.op = "Company.findAll"
    /\ MinAboveMax(FilterObject(last.args[1]))
    /\ last.err = "BadRequestError"
    /\ companies # {}

\* C18: the gate ensureIsCurrentUserOrAdmin passes (calls next with no
\* error) if and only if a caller identity is attached and either its
\* isAdmin flag is true or its username equals the request's target
\* username; in every other case, no identity or an identity without a
\* username included, it raises UnauthorizedError and does not call next.
C18_SelfOrAdminGate ==
    last.op = "ensureIsCurrentUserOrAdmin" =>
        LET user == last.before.user
            target == last.req.params.username
            allowed == /\ user # Undefined
                       /\ \/ user.isAdmin = BoolV(TRUE)
                          \/ user.username = target
        IN  /\ allowed <=> (last.err = "none" /\ last.next)
            /\ ~allowed => (last.err = "UnauthorizedError" /\ ~last.next)
            /\ last.locals = last.before

\* a caller who is neither the target nor an administrator is refused
C18_Witness ==
    /\ last.op = "ensureIsCurrentUserOrAdmin"
    /\ last.before.user # Undefined
    /\ last.before.user.isAdmin = BoolV(FALSE)
    /\ last.before.user.username = StrV(<<"a">>)
    /\ last.req.params.username = StrV(<<"b">>)
    /\ last.err = "UnauthorizedError"
    /\ ~last.next

\* the request carries a bearer credential that verifies under the secret
CarriesValidCredential(req) ==
    /\ req.headers # Undefined
    /\ req.headers.authorization # Undefined
    /\ req.headers.authorization.v.key = SECRET_KEY
    /\ ~req.headers.authorization.v.expired

\* C19: authenticateJWT never fails the request: it always calls next
\* without error; it attaches the verified claims (username, isAdmin) as the
\* caller identity if and only if the request carries a bearer credential
\* that verifies under the shared secret, and otherwise leaves the context
\* with no caller identity.
C19_CredentialExtraction ==
    last.op = "authenticateJWT" =>
        /\ last.err = "none"
        /\ last.next
        /\ CarriesValidCredential(last.req) =>
             /\ last.locals.user # Undefined
             /\ last.locals.user.username =
                  last.req.headers.authorization.v.payload.username
             /\ last.locals.user.isAdmin =
                  last.req.headers.authorization.v.payload.isAdmin
        /\ ~CarriesValidCredential(last.req) => last.locals.user = Undefined

\* a credential signed with another key: the request goes on, anonymous
C19_Witness ==
    /\ last.op = "authenticateJWT"
    /\ last.req.headers # Undefined
    /\ last.req.headers.authorization # Undefined
    /\ last.req.headers.authorization.v.key # SECRET_KEY
    /\ last.locals.user = Undefined
    /\ last.next

\* C20 (as claimed): every repository operation issues exactly one statement
\* to the store per invocation that reaches the store, so that no operation
\* has a point between two statements of its own where another request's
\* statement can come in.
C20_OneStatementPerCall ==
    (last.op \in {"Job.create", "Job.get", "Job.update", "Job.remove",
                  "Job.findAll", "Company.create", "Company.get",
                  "Company.update", "Company.remove", "Company.findAll"}
     /\ last.stmts # <<>>) =>
        Len(last.stmts) = 1

=============================================================================
